---- MODULE Spec2Model ----
(***************************************************************************)
(* Model of the ChicBot backend: the Flask handlers of app.py (chat,       *)
(* reset_conversation, get_or_create_pipeline) and the per-session         *)
(* ChatbotPipeline of src/chatbot_pipeline.py with its collaborators.      *)
(*                                                                         *)
(* Texts are TLA+ strings; Python's `a in b` on strings is Contains.       *)
(* The external models (language detector, intent classifier, Gemini       *)
(* translator / extractor, catalog contents) are oracles: each call draws  *)
(* its answer from a small pool named in a workload profile.               *)
(***************************************************************************)
EXTENDS Integers, Sequences, FiniteSets, TLC

VARIABLES
    session_pipelines,  \* app.py: session id -> pipeline reference (0 = no entry)
    pipelines,          \* the ChatbotPipeline objects ever stored, by reference
                        \* (owner: the session id the object was created for)
    thr,                \* per worker thread: locals of chat() / process_message()
    nreq,               \* number of chat requests received so far
    log,                \* history bookkeeping: exchanges appended per pipeline since its last reset
    call                \* a component called on its own: its arguments and its return value

vars == <<session_pipelines, pipelines, thr, nreq, log, call>>

-----------------------------------------------------------------------------
(* Bounds of the model and constants of the program *)

WarmUp == 5             \* plain requests, one at a time, that open a workload
MaxRequests == 2        \* requests of any kind that follow them (mixed traffic)
MaxSeqRequests == 7     \* chat requests of the long conversation
MaxConcRequests == 2    \* requests that follow the warm-up (overlapping requests)
MaxLangRequests == 2    \* requests that follow the warm-up (foreign-language traffic)
MaxCrossRequests == 2   \* requests that follow the warm-up (two sessions)
MaxCatalog == 3         \* rows of a catalog searched on its own
MaxHistory == 2         \* exchanges of a history handed to the enrichment on its own
MaxStored == 4          \* exchanges of a history handed to the extractor on its own

HistoryWindow == 5      \* chatbot_pipeline.py: "Keep only last 5 exchanges"
StoredProducts == 3     \* chatbot_pipeline.py: products[:3] names kept per exchange
ExtractorContext == 3   \* entity_extractor.py: conversation_history[-3:]
MaxResults == 5         \* chatbot_pipeline.py: max_results=5

None == "<None>"        \* Python None in a string-valued slot

-----------------------------------------------------------------------------
(* Python string and list primitives *)

\* str.lower() on one character (ASCII letters used by the message pool)
LowerChar(c) ==
    CASE c = "A" -> "a" [] c = "B" -> "b" [] c = "C" -> "c" [] c = "D" -> "d"
      [] c = "E" -> "e" [] c = "F" -> "f" [] c = "G" -> "g" [] c = "H" -> "h"
      [] c = "I" -> "i" [] c = "J" -> "j" [] c = "K" -> "k" [] c = "L" -> "l"
      [] c = "M" -> "m" [] c = "N" -> "n" [] c = "O" -> "o" [] c = "P" -> "p"
      [] c = "Q" -> "q" [] c = "R" -> "r" [] c = "S" -> "s" [] c = "T" -> "t"
      [] c = "U" -> "u" [] c = "V" -> "v" [] c = "W" -> "w" [] c = "X" -> "x"
      [] c = "Y" -> "y" [] c = "Z" -> "z" [] OTHER -> c

RECURSIVE Lower(_)
Lower(s) ==
    IF Len(s) = 0 THEN ""
    ELSE LowerChar(SubSeq(s, 1, 1)) \o Lower(SubSeq(s, 2, Len(s)))

\* Python: k in t   (substring test)
Contains(t, k) ==
    \E i \in 1..(Len(t) - Len(k) + 1) : SubSeq(t, i, i + Len(k) - 1) = k

\* Python: any(kw in text for kw in kws)
AnyIn(kws, text) == \E i \in 1..Len(kws) : Contains(text, kws[i])

\* Python: for kw in kws: if kw in text: found = kw; break   (None when no hit)
FirstIn(kws, text) ==
    IF AnyIn(kws, text)
    THEN kws[CHOOSE i \in 1..Len(kws) :
                /\ Contains(text, kws[i])
                /\ \A j \in 1..(i - 1) : ~Contains(text, kws[j])]
    ELSE None

\* Python: xs[-n:]
LastN(xs, n) == IF Len(xs) <= n THEN xs ELSE SubSeq(xs, Len(xs) - n + 1, Len(xs))

\* Python: xs[:n]
FirstN(xs, n) == IF Len(xs) <= n THEN xs ELSE SubSeq(xs, 1, n)

\* Python: " ".join(parts)
RECURSIVE Join(_)
Join(parts) ==
    IF Len(parts) = 0 THEN ""
    ELSE IF Len(parts) = 1 THEN parts[1]
    ELSE parts[1] \o " " \o Join(Tail(parts))

\* set(xs) for a list
Range(xs) == {xs[i] : i \in 1..Len(xs)}

\* list(some_set): every ordering of the set's elements is a possible result
ListsOf(S) ==
    {xs \in [1..Cardinality(S) -> S] : \A i, j \in 1..Cardinality(S) : i # j => xs[i] # xs[j]}

-----------------------------------------------------------------------------
(* Query Enrichment: ChatbotPipeline._enrich_query_with_context *)

product_keywords ==
    <<"dress", "jacket", "coat", "shirt", "top", "pants", "jeans", "skirt", "sweater",
      "shoes", "bag", "boots", "sneakers", "hoodie", "blazer", "cardigan", "shorts",
      "trousers">>

color_keywords ==
    <<"black", "white", "red", "blue", "green", "yellow", "pink", "purple", "brown",
      "grey", "gray", "orange", "beige", "navy">>

\* variant: no word counts as an attribute
no_attribute_keywords == <<>>

attribute_keywords ==
    <<"long sleeve", "short sleeve", "sleeve", "maxi", "midi", "mini", "long", "short",
      "casual", "formal", "vintage", "oversized">>

price_modifiers ==
    <<"cheap", "expensive", "affordable", "budget", "premium", "lower price",
      "higher price">>

\* variant: no word counts as a vague follow-up
no_vague_followups == <<>>

vague_followups == <<"more", "other", "another", "different", "else", "similar", "like">>

\* variant: the color of the last query is not carried over
ComposeWithoutColor(last_query, product_type_from_history, query_lower) ==
    product_type_from_history \o " " \o query_lower

\* [last_color] product_type query_lower   (attribute and price branches)
ComposeWithLast(last_query, product_type_from_history, query_lower) ==
    LET last_color == FirstIn(color_keywords, Lower(last_query))
    IN  IF last_color # None
        THEN last_color \o " " \o product_type_from_history \o " " \o query_lower
        ELSE product_type_from_history \o " " \o query_lower

\* variant: the query comes back lowercased in every case
_enrich_query_lowered(query, conversation_history) ==
    IF Len(conversation_history) = 0 THEN Lower(query)
    ELSE LET last_query == conversation_history[Len(conversation_history)].query_english
             product_type_from_history == FirstIn(product_keywords, Lower(last_query))
         IN  IF AnyIn(product_keywords, Lower(query)) \/ product_type_from_history = None
             THEN Lower(query)
             ELSE product_type_from_history \o " " \o Lower(query)

\* variant: the product type of the history is put before every query
_enrich_query_prefixed(query, conversation_history) ==
    IF Len(conversation_history) = 0 THEN query
    ELSE LET last_query == conversation_history[Len(conversation_history)].query_english
             product_type_from_history == FirstIn(product_keywords, Lower(last_query))
         IN  IF product_type_from_history = None THEN query
             ELSE product_type_from_history \o " " \o query

_enrich_query_with_context(query, conversation_history) ==
    IF Len(conversation_history) = 0 THEN query
    ELSE
      LET query_lower == Lower(query)
          last_query == conversation_history[Len(conversation_history)].query_english
          has_product_keyword == AnyIn(product_keywords, query_lower)
          is_color_change == AnyIn(color_keywords, query_lower) /\ ~has_product_keyword
          is_attribute_addition ==
              AnyIn(attribute_keywords, query_lower) /\ ~has_product_keyword
          is_price_query == AnyIn(price_modifiers, query_lower) /\ ~has_product_keyword
          is_vague_followup ==
              /\ AnyIn(vague_followups, query_lower)
              /\ ~has_product_keyword
              /\ ~is_price_query
              /\ ~is_attribute_addition
          product_type_from_history == FirstIn(product_keywords, Lower(last_query))
          has_type == product_type_from_history # None
      IN  IF is_color_change /\ has_type
            THEN query_lower \o " " \o product_type_from_history
          ELSE IF is_attribute_addition /\ has_type
            THEN ComposeWithLast(last_query, product_type_from_history, query_lower)
          ELSE IF is_price_query /\ has_type
            THEN ComposeWithLast(last_query, product_type_from_history, query_lower)
          ELSE IF is_vague_followup /\ last_query # ""
            THEN last_query
          ELSE IF ~has_product_keyword /\ has_type
            THEN product_type_from_history \o " " \o query
          ELSE query

-----------------------------------------------------------------------------
(* Data: entities, filters, exchanges, responses, thread locals *)

NoPrice == 0 - 1        \* Python None in a numeric slot
NoList == <<None>>      \* Python None in a list-valued slot

\* Python truthiness of a list-valued slot
ListTruthy(xs) == xs # NoList /\ Len(xs) > 0
\* Python truthiness of a string-valued slot
StrTruthy(x) == x # None /\ x # ""

\* entities == {}: every .get() answers None
EmptyEntities ==
    [nonempty |-> FALSE, product_type |-> None, materials |-> NoList, colors |-> NoList,
     price_min |-> NoPrice, price_max |-> NoPrice, sizes |-> NoList, gender |-> None,
     brand |-> None, features |-> NoList, sort_by |-> None, is_fashion_query |-> None]

\* ProductEntities(...).dict(): a dict with every schema key, hence truthy
ProductEntities(product_type, colors, sort_by, is_fashion_query) ==
    [EmptyEntities EXCEPT !.nonempty = TRUE, !.product_type = product_type,
                          !.materials = <<>>, !.colors = colors, !.sizes = <<>>,
                          !.features = <<>>, !.sort_by = sort_by,
                          !.is_fashion_query = is_fashion_query]

NoFilters ==
    [product_type |-> None, colors |-> NoList, materials |-> NoList, brand |-> None,
     price_min |-> NoPrice, price_max |-> NoPrice, sizes |-> NoList, features |-> NoList]

NoTranslation == [text |-> "", translated |-> FALSE, reason |-> None]
NoResponse == [template |-> None, total |-> 0, language |-> None]
NoResult == [status |-> None, reason |-> None, intent |-> None]
NoHttp == [code |-> 0, status |-> None, conversation_turns |-> NoPrice]

\* no component is called on its own
NoCall == [fn |-> None]

\* a worker thread with no request in hand
IdleThread ==
    [pc |-> "idle", session_id |-> None, user_message |-> "", pipeline |-> 0,
     detected_lang |-> None, translation |-> NoTranslation, chain |-> None,
     intent |-> None, entities |-> EmptyEntities, search_query |-> None,
     filters |-> NoFilters, sort_by |-> None, products |-> <<>>,
     response |-> NoResponse, result |-> NoResult, http |-> NoHttp,
     slice |-> <<>>, calls |-> {}, appended |-> FALSE, plain |-> FALSE]

-----------------------------------------------------------------------------
(* Workload profiles: who sends what, and what the external services answer *)

\* Gemini's raw structured answers used by the workloads
RawJacket == ProductEntities("jacket", <<"black">>, None, "True")
RawBlue == ProductEntities(None, <<"blue">>, "price_asc", "True")
RawNotFashion == ProductEntities(None, <<>>, None, "False")

\* the translation chain's answer for a text (an English text comes back as it is)
ChainAnswer(text) == IF text = "veste noire" THEN "black jacket" ELSE text

\* a plain request: an English product query that every service answers normally
PlainLoad ==
    [threads |-> {"t1", "t2"}, sessions |-> {"s1"}, messages |-> {"black jacket"},
     langs |-> {"en"}, intents |-> {"in_context"}, chain |-> {"ok"},
     extractions |-> {EmptyEntities}, searches |-> {<<"p1">>},
     faults |-> {FALSE}, keys |-> {TRUE}, catalogs |-> {TRUE},
     serial |-> TRUE, warm |-> 0, max |-> 0]

\* mixed traffic: one client at a time; after a warm-up that fills the first
\* session's window, English requests that the services answer in every way
WideLoad ==
    [threads |-> {"t1"}, sessions |-> {"s1", "s2"},
     messages |-> {" ", "black jacket", " Show me blue"},
     langs |-> {"en"}, intents |-> {"in_context", "out_of_context"},
     chain |-> {"ok"},
     extractions |-> {EmptyEntities, RawJacket, RawBlue, RawNotFashion},
     searches |-> {<<>>, <<"p1", "p2", "p3", "p4">>},
     faults |-> {FALSE, TRUE}, keys |-> {TRUE}, catalogs |-> {FALSE, TRUE},
     serial |-> TRUE, warm |-> WarmUp, max |-> MaxRequests]

\* foreign-language traffic: one client at a time; the translator may be absent
\* (no API key when the pipeline is created) and its chain may fail
LangLoad ==
    [threads |-> {"t1"}, sessions |-> {"s1", "s2"},
     messages |-> {"black jacket", "veste noire"},
     langs |-> {"en", "fr"}, intents |-> {"in_context", "out_of_context"},
     chain |-> {"ok", "failed"},
     extractions |-> {EmptyEntities}, searches |-> {<<"p1">>},
     faults |-> {FALSE}, keys |-> {FALSE, TRUE}, catalogs |-> {TRUE},
     serial |-> TRUE, warm |-> WarmUp, max |-> MaxLangRequests]

\* a long conversation: one client, one session, two kinds of message
SeqLoad ==
    [threads |-> {"t1"}, sessions |-> {"s1"},
     messages |-> {"black jacket", " Show me blue"},
     langs |-> {"en"}, intents |-> {"in_context", "out_of_context"},
     chain |-> {"ok"}, extractions |-> {EmptyEntities}, searches |-> {<<"p1">>},
     faults |-> {FALSE}, keys |-> {TRUE}, catalogs |-> {TRUE},
     serial |-> TRUE, warm |-> 0, max |-> MaxSeqRequests]

\* overlapping requests on one session: two worker threads; after the warm-up
\* the requests may be in flight together
ConcLoad ==
    [SeqLoad EXCEPT !.threads = {"t1", "t2"},
                    !.serial = FALSE, !.warm = WarmUp, !.max = MaxConcRequests]

\* overlapping requests on two sessions: two worker threads, one kind of message
CrossLoad ==
    [ConcLoad EXCEPT !.sessions = {"s1", "s2"}, !.messages = {" Show me blue"},
                     !.max = MaxCrossRequests]

Threads == {"t1", "t2"}
Sessions == {"s1", "s2"}

-----------------------------------------------------------------------------
(* Collaborators *)

\* str.strip() for blanks
RECURSIVE Strip(_)
Strip(s) ==
    IF Len(s) = 0 THEN ""
    ELSE IF SubSeq(s, 1, 1) = " " THEN Strip(SubSeq(s, 2, Len(s)))
    ELSE IF SubSeq(s, Len(s), Len(s)) = " " THEN Strip(SubSeq(s, 1, Len(s) - 1))
    ELSE s

\* GeminiTranslator.translate; chain is what translation_chain.invoke does this time
translate(text, source_lang, target_lang, chain) ==
    IF source_lang = target_lang THEN [raised |-> FALSE, value |-> text]
    ELSE IF chain = "ok" THEN [raised |-> FALSE, value |-> Strip(ChainAnswer(text))]
    ELSE [raised |-> FALSE, value |-> text]     \* except Exception: return text

\* ChatbotPipeline._translate_to_english; translator is FALSE when self.translator is None
_translate_to_english(text, detected_lang, translator, chain) ==
    IF detected_lang = "en"
      THEN [text |-> text, translated |-> FALSE, reason |-> "already_english"]
    ELSE IF ~translator
      THEN [text |-> text, translated |-> FALSE, reason |-> "translator_disabled"]
    ELSE LET translated == translate(text, detected_lang, "en", chain)
         IN  IF translated.raised
               THEN [text |-> text, translated |-> FALSE, reason |-> "error"]
             ELSE [text |-> translated.value, translated |-> TRUE, reason |-> None]

\* extract: the entities of the latest of the last 3 exchanges that stored any
PreviousEntities(conversation_history) ==
    LET last_exchanges == LastN(conversation_history, ExtractorContext)
        stored == {i \in 1..Len(last_exchanges) : last_exchanges[i].entities.nonempty}
    IN  IF stored = {} THEN EmptyEntities
        ELSE last_exchanges[CHOOSE i \in stored : \A j \in stored : j <= i].entities

\* variant: the fresh list is returned alone
FreshListOnly(previous, current) == {current}

\* extract: list(set(previous) | set(current)) when the previous list is non-empty
MergedLists(previous, current) ==
    IF ListTruthy(previous) THEN ListsOf(Range(previous) \cup Range(current))
    ELSE {current}

\* variant: the previous turn's product type and lists replace the fresh ones
extract_prefers_previous(raw, conversation_history) ==
    LET previous_entities == PreviousEntities(conversation_history)
    IN  IF ~raw.nonempty THEN {EmptyEntities}
        ELSE IF ~previous_entities.nonempty THEN {raw}
        ELSE {[raw EXCEPT !.product_type = previous_entities.product_type,
                          !.materials = previous_entities.materials,
                          !.colors = previous_entities.colors]}

\* GeminiEntityExtractor.extract: the results it can return. raw is the structured
\* answer of the model; raw = EmptyEntities stands for runnable None or a failed invoke.
extract(raw, conversation_history) ==
    LET previous_entities == PreviousEntities(conversation_history)
    IN  IF ~raw.nonempty THEN {EmptyEntities}
        ELSE IF ~previous_entities.nonempty THEN {raw}
        ELSE
          LET product_type ==
                  IF ~StrTruthy(raw.product_type) /\ StrTruthy(previous_entities.product_type)
                  THEN previous_entities.product_type
                  ELSE raw.product_type
          IN  {[raw EXCEPT !.product_type = product_type, !.materials = m, !.colors = c] :
                  m \in MergedLists(previous_entities.materials, raw.materials),
                  c \in MergedLists(previous_entities.colors, raw.colors)}

\* variant: a search without a catalog raises
search_raises_without_catalog(df, P) ==
    IF ~df THEN {[raised |-> TRUE, products |-> <<>>]}
    ELSE {[raised |-> b, products |-> IF b THEN <<>> ELSE FirstN(r, MaxResults)] :
             b \in P.faults, r \in P.searches}

\* ProductSearch.search as the pipeline sees it: df is FALSE when load_products failed.
\* With a catalog, the answer is one of the workload's result lists, capped, or an error.
search(df, P) ==
    IF ~df THEN {[raised |-> FALSE, products |-> <<>>]}
    ELSE {[raised |-> b, products |-> IF b THEN <<>> ELSE FirstN(r, MaxResults)] :
             b \in P.faults, r \in P.searches}

\* ResponseGenerator.generate: which of its texts it builds and in which language
generate(products, original_language, conversation_history, translator, chain) ==
    LET has_history == Len(conversation_history) > 0
        total_products == Len(products)
        size == IF total_products = 0 THEN "none"
                ELSE IF total_products = 1 THEN "one"
                ELSE IF total_products <= 3 THEN "few"
                ELSE "many"
        template == size \o (IF has_history THEN "_followup" ELSE "_first")
    IN  [template |-> template, total |-> total_products,
         language |-> IF original_language # "en" /\ translator /\ chain = "ok"
                      THEN original_language ELSE "en"]

-----------------------------------------------------------------------------
(* Product Search: ProductSearch.search over a catalog (a list of rows) *)

NaN == "<NaN>"          \* a missing cell of a text column (pandas NaN)
NaNPrice == 0 - 2       \* a missing cell of price_clean

\* .fillna('').str.lower()  /  str(cell).lower() if pd.notna(cell) else ''
Text(cell) == IF cell = NaN THEN "" ELSE Lower(cell)

\* a catalog row; the columns it leaves out are missing cells
Row(name, product_type, color_clean, price_clean, sku) ==
    [name |-> name, category_clean |-> NaN, category |-> NaN,
     color_clean |-> color_clean, color |-> NaN, description |-> NaN,
     product_type |-> product_type, base_color |-> NaN, brand |-> NaN,
     price_clean |-> price_clean, sku |-> sku, sizes_available |-> NoList]

\* Python: sum(xs)
RECURSIVE Sum(_)
Sum(xs) == IF Len(xs) = 0 THEN 0 ELSE Head(xs) + Sum(Tail(xs))

\* Python: xs[::-1]
Reverse(xs) == [i \in 1..Len(xs) |-> xs[Len(xs) + 1 - i]]

\* Python: [x for x in xs if x in S]
RECURSIVE Only(_, _)
Only(xs, S) ==
    IF Len(xs) = 0 THEN <<>>
    ELSE (IF Head(xs) \in S THEN <<Head(xs)>> ELSE <<>>) \o Only(Tail(xs), S)

\* Python: s.split() for blank-separated words
RECURSIVE Split(_)
Split(s) ==
    LET t == Strip(s)
    IN  IF t = "" THEN <<>>
        ELSE IF ~Contains(t, " ") THEN <<t>>
        ELSE LET n == CHOOSE i \in 1..Len(t) :
                          /\ SubSeq(t, i, i) = " "
                          /\ \A j \in 1..(i - 1) : SubSeq(t, j, j) # " "
             IN  <<SubSeq(t, 1, n - 1)>> \o Split(SubSeq(t, n + 1, Len(t)))

\* regex \w for the characters of lowercased catalog text
WordChars ==
    {"a", "b", "c", "d", "e", "f", "g", "h", "i", "j", "k", "l", "m", "n", "o", "p", "q",
     "r", "s", "t", "u", "v", "w", "x", "y", "z", "0", "1", "2", "3", "4", "5", "6", "7",
     "8", "9", "_"}
IsWordChar(c) == c \in WordChars

\* has_word: re.search(rf"\b{re.escape(kw)}\b", text), for kw that starts and ends
\* with a word character
has_word(text, kw) ==
    /\ kw # ""
    /\ \E i \in 1..(Len(text) - Len(kw) + 1) :
          /\ SubSeq(text, i, i + Len(kw) - 1) = kw
          /\ i = 1 \/ ~IsWordChar(SubSeq(text, i - 1, i - 1))
          /\ i + Len(kw) - 1 = Len(text) \/ ~IsWordChar(SubSeq(text, i + Len(kw), i + Len(kw)))

product_type_keywords ==
    <<"dress", "jacket", "coat", "shirt", "top", "pants", "jeans", "skirt", "sweater",
      "jumper", "blazer", "cardigan", "hoodie", "tshirt", "t-shirt", "shorts", "trousers">>

\* variant: no colour text marks a row as multicoloured
no_multicolor_terms == <<>>

multicolor_terms == <<"multicoloured", "multi", "floral", "print">>

\* what search derives from its arguments before it looks at the catalog
SearchTerms(query, filters) ==
    LET query_lower == Strip(Lower(query))
        keywords == Split(query_lower)
        query_product_type == Only(keywords, Range(product_type_keywords))
        query_colors == Only(keywords, Range(color_keywords))
        lowered(xs) == IF xs = NoList THEN <<>> ELSE [i \in 1..Len(xs) |-> Lower(xs[i])]
    IN  [query_lower |-> query_lower,
         keywords |-> keywords,
         query_product_type |-> query_product_type,
         query_colors |-> query_colors,
         filter_product_type |->
             IF StrTruthy(filters.product_type) THEN filters.product_type
             ELSE IF Len(query_product_type) > 0 THEN query_product_type[1] ELSE None,
         filter_colors |->
             IF filters.colors = NoList THEN query_colors ELSE lowered(filters.colors),
         filter_brand |-> IF filters.brand = None THEN None ELSE Lower(filters.brand),
         price_min |-> filters.price_min,
         price_max |-> filters.price_max,
         filter_sizes |-> lowered(filters.sizes),
         filter_features |-> lowered(filters.features)]

\* has_size: the row's sizes_available parses to a list that holds one of the sizes
has_size(row, filter_sizes) ==
    /\ row.sizes_available # NoList
    /\ \E i \in 1..Len(filter_sizes) :
          \E j \in 1..Len(row.sizes_available) :
              Lower(row.sizes_available[j]) = filter_sizes[i]

\* the row passes every filter that is set (df_filtered keeps it)
PassesFilters(row, T) ==
    /\ StrTruthy(T.filter_product_type) =>
          LET pt == Strip(Lower(T.filter_product_type))
          IN  \/ Contains(Text(row.product_type), pt)
              \/ Contains(Text(row.category_clean), pt)
              \/ Contains(Text(row.category), pt)
    /\ Len(T.filter_colors) > 0 =>
          \E i \in 1..Len(T.filter_colors) :
              LET kw == Strip(Lower(T.filter_colors[i]))
              IN  \/ has_word(Text(row.color_clean), kw)
                  \/ has_word(Text(row.color), kw)
                  \/ has_word(Text(row.name), kw)
    /\ \A i \in 1..Len(T.filter_features) :
          LET kw == Strip(Lower(T.filter_features[i]))
          IN  \/ has_word(Text(row.name), kw)
              \/ has_word(Text(row.category_clean), kw)
              \/ has_word(Text(row.category), kw)
              \/ has_word(Text(row.description), kw)
    /\ StrTruthy(T.filter_brand) => Contains(Text(row.brand), T.filter_brand)
    \* price_clean.fillna(float('inf')) >= float(price_min)
    /\ T.price_min # NoPrice =>
          row.price_clean = NaNPrice \/ row.price_clean >= T.price_min
    \* price_clean.fillna(0.0) <= float(price_max)
    /\ T.price_max # NoPrice =>
          IF row.price_clean = NaNPrice THEN 0 <= T.price_max
          ELSE row.price_clean <= T.price_max
    /\ Len(T.filter_sizes) > 0 => has_size(row, T.filter_sizes)

\* max(1.0, price_max - price_min) when both ends of the price range are given
PriceSpan(T) == IF T.price_max - T.price_min > 1 THEN T.price_max - T.price_min ELSE 1

\* scores are kept as integers: every score is counted in units of 1/ScoreScale
ScoreScale(T) ==
    IF T.price_min # NoPrice /\ T.price_max # NoPrice THEN 2 * PriceSpan(T) ELSE 1

\* the price part of a row's score, in units of 1/ScoreScale
PriceScore(row, T) ==
    LET price_val == row.price_clean
        twice_distance == IF 2 * price_val >= T.price_min + T.price_max
                          THEN 2 * price_val - (T.price_min + T.price_max)
                          ELSE (T.price_min + T.price_max) - 2 * price_val
        near == 10 * PriceSpan(T) - 5 * twice_distance
    IN  IF (T.price_min = NoPrice /\ T.price_max = NoPrice) \/ price_val = NaNPrice THEN 0
        ELSE IF T.price_min # NoPrice /\ T.price_max # NoPrice
          THEN (IF near > 0 THEN near ELSE 0)
        ELSE IF T.price_min # NoPrice /\ price_val >= T.price_min THEN 2
        ELSE IF T.price_max # NoPrice /\ price_val <= T.price_max THEN 2
        ELSE 0

\* the score the scoring loop gives a row, in units of 1/ScoreScale
Score(row, T) ==
    LET name == Text(row.name)
        category == IF row.category_clean # NaN THEN Lower(row.category_clean)
                    ELSE Text(row.category)
        color == IF row.color_clean # NaN THEN Lower(row.color_clean) ELSE Text(row.color)
        description == Text(row.description)
        product_type == Text(row.product_type)
        base_color == Text(row.base_color)
        brand == Text(row.brand)
        keywords == T.keywords
        is_multicolored == AnyIn(multicolor_terms, color)
        active_colors == IF Len(T.filter_colors) > 0 THEN T.filter_colors ELSE T.query_colors
        active_features == T.filter_features
        B(cond, points) == IF cond THEN points ELSE 0
        type_points ==
            Sum([i \in 1..Len(T.query_product_type) |->
                    LET pt_keyword == T.query_product_type[i]
                    IN  B(Contains(product_type, pt_keyword), 10)
                        + B(Contains(name, pt_keyword), 8)
                        + B(Contains(category, pt_keyword), 6)])
        color_points ==
            Sum([i \in 1..Len(active_colors) |->
                    LET in_color == has_word(color, active_colors[i])
                        in_name == has_word(name, active_colors[i])
                        in_base == has_word(base_color, active_colors[i])
                    IN  (IF in_color /\ ~is_multicolored THEN 10
                         ELSE IF in_color /\ is_multicolored THEN 3
                         ELSE IF in_base /\ ~is_multicolored THEN 7
                         ELSE IF in_base /\ is_multicolored THEN 2
                         ELSE 0)
                        + B(in_name /\ ~is_multicolored, 5)])
        feature_points ==
            Sum([i \in 1..Len(active_features) |->
                    IF has_word(name, active_features[i]) \/ has_word(category, active_features[i])
                    THEN 6
                    ELSE B(has_word(description, active_features[i]), 3)])
        brand_points ==
            IF StrTruthy(T.filter_brand) /\ Contains(brand, T.filter_brand) THEN 10
            ELSE Sum([i \in 1..Len(keywords) |-> B(Contains(brand, keywords[i]), 4)])
        size_points == B(Len(T.filter_sizes) > 0 /\ has_size(row, T.filter_sizes), 3)
        keyword_points ==
            Sum([i \in 1..Len(keywords) |->
                    LET keyword == keywords[i]
                    IN  IF \/ keyword \in Range(T.query_product_type)
                           \/ keyword \in Range(active_colors)
                           \/ keyword \in Range(active_features)
                        THEN 0
                        ELSE (IF Contains(" " \o name \o " ", " " \o keyword \o " ") THEN 6
                              ELSE B(Contains(name, keyword), 4))
                             + (IF Contains(" " \o category \o " ", " " \o keyword \o " ") THEN 5
                                ELSE B(Contains(category, keyword), 3))
                             + B(Contains(brand, keyword), 3)
                             + B(Contains(description, keyword), 1)])
        matched_keywords ==
            Sum([i \in 1..Len(keywords) |->
                    B(\/ Contains(name, keywords[i])
                      \/ Contains(category, keywords[i])
                      \/ Contains(color, keywords[i]), 1)])
        points ==
            B(Contains(name, T.query_lower), 15) + B(Contains(category, T.query_lower), 12)
            + type_points + color_points + feature_points + brand_points + size_points
            + keyword_points + B(10 * matched_keywords >= 7 * Len(keywords), 5)
    IN  ScoreScale(T) * points + PriceScore(row, T)

\* scores: the rows that pass the filters and score above 0, in catalog order
RECURSIVE Candidates(_, _, _)
Candidates(df, T, idx) ==
    IF idx > Len(df) THEN <<>>
    ELSE LET score == IF PassesFilters(df[idx], T) THEN Score(df[idx], T) ELSE 0
         IN  (IF score > 0
              THEN <<[score |-> score, index |-> idx, product |-> df[idx]]>>
              ELSE <<>>)
             \o Candidates(df, T, idx + 1)

\* float '<' on sort keys: False as soon as one side is NaN
KeyLess(a, b) == a # NaNPrice /\ b # NaNPrice /\ a < b

\* list.sort, count_run: the length of the run the list starts with
RECURSIVE RunEnd(_, _, _)
RunEnd(a, k, descending) ==
    IF k < Len(a) /\ (IF descending THEN KeyLess(a[k + 1].key, a[k].key)
                                    ELSE ~KeyLess(a[k + 1].key, a[k].key))
    THEN RunEnd(a, k + 1, descending)
    ELSE k

count_run(a) ==
    IF Len(a) <= 1 THEN [n |-> Len(a), descending |-> FALSE]
    ELSE LET descending == KeyLess(a[2].key, a[1].key)
         IN  [n |-> RunEnd(a, 2, descending), descending |-> descending]

\* list.sort, binarysort: where pivot goes among the first r elements (0-based l, r)
RECURSIVE Bisect(_, _, _, _)
Bisect(a, pivot, l, r) ==
    IF l < r
    THEN LET p == l + ((r - l) \div 2)
         IN  IF KeyLess(pivot.key, a[p + 1].key) THEN Bisect(a, pivot, l, p)
             ELSE Bisect(a, pivot, p + 1, r)
    ELSE l

\* list.sort, binarysort: insert a[start], a[start+1], ... into the sorted prefix
RECURSIVE binarysort(_, _)
binarysort(a, start) ==
    IF start >= Len(a) THEN a
    ELSE LET pivot == a[start + 1]
             l == Bisect(a, pivot, 0, start)
         IN  binarysort(SubSeq(a, 1, l) \o <<pivot>> \o SubSeq(a, l + 1, start)
                            \o SubSeq(a, start + 2, Len(a)),
                        start + 1)

\* list.sort(key=..., reverse=...) as CPython runs it on a list shorter than 64:
\* one run is counted (and reversed when descending), the rest is inserted by bisection
list_sort(keyed, reverse) ==
    LET a == IF reverse THEN Reverse(keyed) ELSE keyed
        run == count_run(a)
        b == IF run.descending
             THEN Reverse(SubSeq(a, 1, run.n)) \o SubSeq(a, run.n + 1, Len(a))
             ELSE a
        c == binarysort(b, run.n)
    IN  IF reverse THEN Reverse(c) ELSE c

\* scores.sort(...): by price_clean, by price_clean reversed, or by score reversed
Ranked(df, query, filters, sort_by) ==
    LET T == SearchTerms(query, filters)
        scores == Candidates(df, T, 1)
        keyed == [i \in 1..Len(scores) |->
                     [key |-> IF sort_by \in {"price_asc", "price_desc"}
                              THEN scores[i].product.price_clean
                              ELSE scores[i].score,
                      item |-> scores[i]]]
        sorted == list_sort(keyed, sort_by # "price_asc")
    IN  [i \in 1..Len(sorted) |-> sorted[i].item]

\* variant: the loop that never skips a candidate
dedup_loop_keep_all(scores, seen_skus, results, max_results) ==
    FirstN(scores, IF max_results > 1 THEN max_results ELSE 1)

\* variant: a missing sku counts as a sku like any other
RECURSIVE dedup_loop_missing_once(_, _, _, _)
dedup_loop_missing_once(scores, seen_skus, results, max_results) ==
    IF Len(scores) = 0 THEN results
    ELSE LET sku == Head(scores).product.sku
         IN  IF sku \in seen_skus
             THEN dedup_loop_missing_once(Tail(scores), seen_skus, results, max_results)
             ELSE IF Len(results) + 1 >= max_results
                  THEN Append(results, Head(scores))
                  ELSE dedup_loop_missing_once(Tail(scores), seen_skus \cup {sku},
                                               Append(results, Head(scores)), max_results)

\* the deduplication loop: the candidates it keeps, in order
RECURSIVE dedup_loop(_, _, _, _)
dedup_loop(scores, seen_skus, results, max_results) ==
    IF Len(scores) = 0 THEN results
    ELSE LET sku == Head(scores).product.sku
         IN  IF sku # NaN /\ sku \in seen_skus
             THEN dedup_loop(Tail(scores), seen_skus, results, max_results)
             ELSE IF Len(results) + 1 >= max_results
                  THEN Append(results, Head(scores))
                  ELSE dedup_loop(Tail(scores),
                                  IF sku # NaN THEN seen_skus \cup {sku} ELSE seen_skus,
                                  Append(results, Head(scores)), max_results)

\* the candidates a search returns (each still with its score and catalog index)
Kept(df, query, max_results, filters, sort_by) ==
    IF Len(df) = 0 THEN <<>>
    ELSE dedup_loop(Ranked(df, query, filters, sort_by), {}, <<>>, max_results)

\* the result dict built for a kept product
Result(product) ==
    [name |-> product.name,
     category |-> product.category_clean,
     color |-> product.color_clean,
     price |-> product.price_clean,
     sku |-> product.sku,
     description |-> IF product.description = NaN THEN "N/A" ELSE product.description,
     brand |-> product.brand,
     base_color |-> product.base_color]

\* ProductSearch.search on a loaded catalog
ProductSearch_search(df, query, max_results, filters, sort_by) ==
    LET kept == Kept(df, query, max_results, filters, sort_by)
    IN  [i \in 1..Len(kept) |-> Result(kept[i].product)]

-----------------------------------------------------------------------------
(* State access *)

History(pid) == pipelines[pid].conversation_history

\* the history a session's requests and resets find through session_pipelines
SessionHistory(s) ==
    IF session_pipelines[s] = 0 THEN <<>> ELSE History(session_pipelines[s])

With(t, rec) == thr' = [thr EXCEPT ![t] = rec]

\* the pools the request in thread t draws its answers from
Pools(t, P) == IF thr[t].plain THEN PlainLoad ELSE P

Called(t, who) == thr[t].calls \cup {who}

\* chat's except clause: any exception of the handler becomes a 500 answer
Raise500(t, who) ==
    With(t, [thr[t] EXCEPT !.pc = "returned", !.calls = Called(t, who),
                           !.http = [NoHttp EXCEPT !.code = 500, !.status = "error"]])

Init ==
    /\ session_pipelines = [s \in Sessions |-> 0]
    /\ pipelines = <<>>
    /\ thr = [t \in Threads |-> IdleThread]
    /\ nreq = 0
    /\ log = <<>>
    /\ call = NoCall

-----------------------------------------------------------------------------
(* app.py: chat, up to the call of process_message *)

\* (werkzeug hands each request to a worker thread of its own; the workers are
\* interchangeable, so the request goes to one fixed free worker)
chat(t, s, m, P) ==
    /\ thr[t].pc = "idle"
    /\ t = CHOOSE u \in P.threads : thr[u].pc = "idle"
    /\ nreq < P.warm + P.max
    /\ IF nreq < P.warm THEN s \in PlainLoad.sessions /\ m \in PlainLoad.messages
                       ELSE s \in P.sessions /\ m \in P.messages
    /\ nreq <= P.warm => \A u \in Threads : thr[u].pc = "idle"
    /\ nreq' = nreq + 1
    /\ LET user_message == Strip(m)
       IN  IF user_message = ""
           THEN With(t, [IdleThread EXCEPT !.pc = "returned", !.session_id = s,
                            !.http = [NoHttp EXCEPT !.code = 400, !.status = "error"]])
           ELSE With(t, [IdleThread EXCEPT !.pc = "get_pipeline", !.session_id = s,
                            !.user_message = user_message, !.plain = nreq < P.warm])
    /\ UNCHANGED <<call, session_pipelines, pipelines, log>>

\* get_or_create_pipeline: if session_id not in session_pipelines
get_or_create_pipeline(t) ==
    /\ thr[t].pc = "get_pipeline"
    /\ With(t, [thr[t] EXCEPT !.pc = IF session_pipelines[thr[t].session_id] = 0
                                     THEN "load_models" ELSE "lookup"])
    /\ UNCHANGED <<call, session_pipelines, pipelines, nreq, log>>

\* ChatbotPipeline(); load_models(); session_pipelines[session_id] = pipeline
load_models(t, P) ==
    /\ thr[t].pc = "load_models"
    /\ \E boom \in Pools(t, P).faults, key \in Pools(t, P).keys, catalog \in Pools(t, P).catalogs :
          IF boom
          THEN /\ Raise500(t, "load_models")
               /\ UNCHANGED <<session_pipelines, pipelines, log>>
          ELSE /\ pipelines' = Append(pipelines,
                      [translator |-> key, df |-> catalog, conversation_history |-> <<>>,
                       owner |-> thr[t].session_id])
               /\ log' = Append(log, <<>>)
               /\ session_pipelines' =
                      [session_pipelines EXCEPT ![thr[t].session_id] = Len(pipelines) + 1]
               /\ With(t, [thr[t] EXCEPT !.pc = "lookup"])
    /\ UNCHANGED <<nreq, call>>

\* variant: the most recently created pipeline is handed to every session
lookup_pipeline_latest(t) ==
    /\ thr[t].pc = "lookup"
    /\ With(t, [thr[t] EXCEPT !.pc = "detect", !.pipeline = Len(pipelines)])
    /\ UNCHANGED <<call, session_pipelines, pipelines, nreq, log>>

\* return session_pipelines[session_id]
lookup_pipeline(t) ==
    /\ thr[t].pc = "lookup"
    /\ With(t, [thr[t] EXCEPT !.pc = "detect",
                              !.pipeline = session_pipelines[thr[t].session_id]])
    /\ UNCHANGED <<call, session_pipelines, pipelines, nreq, log>>

-----------------------------------------------------------------------------
(* chatbot_pipeline.py: process_message, one action per step *)

\* Step 1: lang_result = self._detect_language(user_input)
_detect_language(t, P) ==
    /\ thr[t].pc = "detect"
    /\ \E boom \in Pools(t, P).faults, language \in Pools(t, P).langs :
          IF boom THEN Raise500(t, "detect")
          ELSE With(t, [thr[t] EXCEPT !.pc = "translate", !.calls = Called(t, "detect"),
                                      !.detected_lang = language])
    /\ UNCHANGED <<call, session_pipelines, pipelines, nreq, log>>

\* Step 2: translation = self._translate_to_english(user_input, detected_lang)
translate_step(t, P) ==
    /\ thr[t].pc = "translate"
    /\ LET translator == pipelines[thr[t].pipeline].translator
           invoked == thr[t].detected_lang # "en" /\ translator
       IN  \E chain \in (IF invoked THEN Pools(t, P).chain ELSE {None}) :
              With(t, [thr[t] EXCEPT
                         !.pc = "classify",
                         !.calls = IF invoked THEN Called(t, "translate") ELSE @,
                         !.chain = chain,
                         !.translation = _translate_to_english(
                             thr[t].user_message, thr[t].detected_lang, translator, chain)])
    /\ UNCHANGED <<call, session_pipelines, pipelines, nreq, log>>

\* variant: an out_of_context verdict is recorded but does not stop the message
_classify_intent_no_gate(t, P) ==
    /\ thr[t].pc = "classify"
    /\ \E boom \in Pools(t, P).faults, intent \in Pools(t, P).intents :
          IF boom THEN Raise500(t, "classify")
          ELSE With(t, [thr[t] EXCEPT !.pc = "extract", !.calls = Called(t, "classify"),
                                      !.intent = intent])
    /\ UNCHANGED <<call, session_pipelines, pipelines, nreq, log>>

\* the exchange process_message stores
Exchange(t) ==
    [user |-> thr[t].user_message, query_english |-> thr[t].search_query,
     entities |-> thr[t].entities, response |-> thr[t].response,
     products |-> FirstN(thr[t].products, StoredProducts),
     language |-> thr[t].detected_lang]

\* variant: a message the intent gate rejects is stored in the history
_classify_intent_stores_rejected(t, P) ==
    /\ thr[t].pc = "classify"
    /\ \E boom \in Pools(t, P).faults, intent \in Pools(t, P).intents :
          IF boom THEN Raise500(t, "classify") /\ UNCHANGED <<pipelines, log>>
          ELSE IF intent = "out_of_context"
          THEN /\ With(t, [thr[t] EXCEPT
                             !.pc = "respond", !.calls = Called(t, "classify"),
                             !.intent = intent,
                             !.result = [status |-> "rejected", reason |-> "out_of_context",
                                         intent |-> intent]])
               /\ pipelines' = [pipelines EXCEPT ![thr[t].pipeline].conversation_history =
                                                     Append(@, Exchange(t))]
               /\ log' = [log EXCEPT ![thr[t].pipeline] = Append(@, Exchange(t))]
          ELSE /\ With(t, [thr[t] EXCEPT !.pc = "extract", !.calls = Called(t, "classify"),
                                         !.intent = intent])
               /\ UNCHANGED <<pipelines, log>>
    /\ UNCHANGED <<call, session_pipelines, nreq>>

\* Step 2.5: intent gate
_classify_intent(t, P) ==
    /\ thr[t].pc = "classify"
    /\ \E boom \in Pools(t, P).faults, intent \in Pools(t, P).intents :
          IF boom THEN Raise500(t, "classify")
          ELSE IF intent = "out_of_context"
          THEN With(t, [thr[t] EXCEPT
                          !.pc = "respond", !.calls = Called(t, "classify"),
                          !.intent = intent,
                          !.result = [status |-> "rejected", reason |-> "out_of_context",
                                      intent |-> intent]])
          ELSE With(t, [thr[t] EXCEPT !.pc = "extract", !.calls = Called(t, "classify"),
                                      !.intent = intent])
    /\ UNCHANGED <<call, session_pipelines, pipelines, nreq, log>>

\* Step 2.75: entities = self._extract_entities(query_english)
_extract_entities(t, P) ==
    /\ thr[t].pc = "extract"
    /\ \E raw \in Pools(t, P).extractions :
          \E entities \in extract(raw, History(thr[t].pipeline)) :
              With(t, [thr[t] EXCEPT !.pc = "resolve", !.calls = Called(t, "extract"),
                                     !.entities = entities])
    /\ UNCHANGED <<call, session_pipelines, pipelines, nreq, log>>

\* entities and (product_type or colors or features or materials)
Usable(entities) ==
    /\ entities.nonempty
    /\ \/ StrTruthy(entities.product_type)
       \/ ListTruthy(entities.colors)
       \/ ListTruthy(entities.features)
       \/ ListTruthy(entities.materials)

\* " ".join(colors + materials + [product_type] + [brand]), absent parts skipped
EntityQuery(entities) ==
    Join((IF ListTruthy(entities.colors) THEN entities.colors ELSE <<>>)
         \o (IF ListTruthy(entities.materials) THEN entities.materials ELSE <<>>)
         \o (IF StrTruthy(entities.product_type) THEN <<entities.product_type>> ELSE <<>>)
         \o (IF StrTruthy(entities.brand) THEN <<entities.brand>> ELSE <<>>))

\* filters = {...: entities.get(...) if entities else None}
FiltersOf(entities) ==
    [product_type |-> entities.product_type, colors |-> entities.colors,
     materials |-> entities.materials, brand |-> entities.brand,
     price_min |-> entities.price_min, price_max |-> entities.price_max,
     sizes |-> entities.sizes, features |-> entities.features]

\* variant: the extractor's is_fashion_query verdict is ignored
resolve_query_no_veto(t) ==
    /\ thr[t].pc = "resolve"
    /\ LET entities == thr[t].entities
           query_english == thr[t].translation.text
       IN  With(t, [thr[t] EXCEPT
                      !.pc = "search",
                      !.search_query =
                          IF Usable(entities) THEN EntityQuery(entities)
                          ELSE _enrich_query_with_context(
                                   query_english, History(thr[t].pipeline)),
                      !.filters = FiltersOf(entities),
                      !.sort_by = IF entities.nonempty /\ StrTruthy(entities.sort_by)
                                  THEN entities.sort_by ELSE "relevance"])
    /\ UNCHANGED <<call, session_pipelines, pipelines, nreq, log>>

\* variant: without usable entities the translated query is searched as it is
resolve_query_no_enrich(t) ==
    /\ thr[t].pc = "resolve"
    /\ LET entities == thr[t].entities
           query_english == thr[t].translation.text
       IN  IF entities.nonempty /\ entities.is_fashion_query = "False"
           THEN With(t, [thr[t] EXCEPT
                           !.pc = "respond",
                           !.result = [status |-> "rejected", reason |-> "not_fashion",
                                       intent |-> "out_of_context"]])
           ELSE With(t, [thr[t] EXCEPT
                           !.pc = "search",
                           !.search_query =
                               IF Usable(entities) THEN EntityQuery(entities)
                               ELSE query_english,
                           !.filters = FiltersOf(entities),
                           !.sort_by = IF entities.nonempty /\ StrTruthy(entities.sort_by)
                                       THEN entities.sort_by ELSE "relevance"])
    /\ UNCHANGED <<call, session_pipelines, pipelines, nreq, log>>

\* the second veto, then the search query, the filters and the sort mode
resolve_query(t) ==
    /\ thr[t].pc = "resolve"
    /\ LET entities == thr[t].entities
           query_english == thr[t].translation.text
       IN  IF entities.nonempty /\ entities.is_fashion_query = "False"
           THEN With(t, [thr[t] EXCEPT
                           !.pc = "respond",
                           !.result = [status |-> "rejected", reason |-> "not_fashion",
                                       intent |-> "out_of_context"]])
           ELSE With(t, [thr[t] EXCEPT
                           !.pc = "search",
                           !.search_query =
                               IF Usable(entities) THEN EntityQuery(entities)
                               ELSE _enrich_query_with_context(
                                        query_english, History(thr[t].pipeline)),
                           !.filters = FiltersOf(entities),
                           !.sort_by = IF entities.nonempty /\ StrTruthy(entities.sort_by)
                                       THEN entities.sort_by ELSE "relevance"])
    /\ UNCHANGED <<call, session_pipelines, pipelines, nreq, log>>

\* Step 3: products = self._search_products(search_query, 5, filters, sort_by)
_search_products(t, P) ==
    /\ thr[t].pc = "search"
    /\ \E found \in search(pipelines[thr[t].pipeline].df, Pools(t, P)) :
          IF found.raised THEN Raise500(t, "search")
          ELSE With(t, [thr[t] EXCEPT !.pc = "generate", !.calls = Called(t, "search"),
                                      !.products = found.products])
    /\ UNCHANGED <<call, session_pipelines, pipelines, nreq, log>>

\* variant: the exchange is stored before the response generator is called
_generate_response_append_first(t, P) ==
    /\ thr[t].pc = "generate"
    /\ pipelines' = [pipelines EXCEPT ![thr[t].pipeline].conversation_history =
                                          Append(@, Exchange(t))]
    /\ log' = [log EXCEPT ![thr[t].pipeline] = Append(@, Exchange(t))]
    /\ LET translator == pipelines[thr[t].pipeline].translator
           invoked == thr[t].detected_lang # "en" /\ translator
       IN  \E boom \in Pools(t, P).faults,
              chain \in (IF invoked THEN Pools(t, P).chain ELSE {None}) :
              IF boom THEN Raise500(t, "generate")
              ELSE With(t, [thr[t] EXCEPT
                              !.pc = "check_len", !.calls = Called(t, "generate"),
                              !.appended = TRUE,
                              !.response = generate(thr[t].products, thr[t].detected_lang,
                                                    History(thr[t].pipeline), translator, chain),
                              !.result = [status |-> "success", reason |-> None,
                                          intent |-> thr[t].intent]])
    /\ UNCHANGED <<call, session_pipelines, nreq>>

\* Step 4: response = self._generate_response(...); result = {...}
_generate_response(t, P) ==
    /\ thr[t].pc = "generate"
    /\ LET translator == pipelines[thr[t].pipeline].translator
           invoked == thr[t].detected_lang # "en" /\ translator
       IN  \E boom \in Pools(t, P).faults, chain \in (IF invoked THEN Pools(t, P).chain ELSE {None}) :
              IF boom THEN Raise500(t, "generate")
              ELSE With(t, [thr[t] EXCEPT
                              !.pc = "append", !.calls = Called(t, "generate"),
                              !.response = generate(thr[t].products, thr[t].detected_lang,
                                                    History(thr[t].pipeline), translator, chain),
                              !.result = [status |-> "success", reason |-> None,
                                          intent |-> thr[t].intent]])
    /\ UNCHANGED <<call, session_pipelines, pipelines, nreq, log>>

\* self.conversation_history.append({...})
append_exchange(t) ==
    /\ thr[t].pc = "append"
    /\ pipelines' = [pipelines EXCEPT ![thr[t].pipeline].conversation_history =
                                          Append(@, Exchange(t))]
    /\ log' = [log EXCEPT ![thr[t].pipeline] = Append(@, Exchange(t))]
    /\ With(t, [thr[t] EXCEPT !.pc = "check_len", !.appended = TRUE])
    /\ UNCHANGED <<call, session_pipelines, nreq>>

\* if len(self.conversation_history) > 5
check_len(t) ==
    /\ thr[t].pc = "check_len"
    /\ With(t, [thr[t] EXCEPT !.pc = IF Len(History(thr[t].pipeline)) > HistoryWindow
                                     THEN "slice" ELSE "respond"])
    /\ UNCHANGED <<call, session_pipelines, pipelines, nreq, log>>

\* variant: the slice keeps one exchange too many
take_slice_six(t) ==
    /\ thr[t].pc = "slice"
    /\ With(t, [thr[t] EXCEPT !.pc = "assign",
                              !.slice = LastN(History(thr[t].pipeline), HistoryWindow + 1)])
    /\ UNCHANGED <<call, session_pipelines, pipelines, nreq, log>>

\* variant: the slice keeps the oldest exchanges instead of the newest
take_slice_oldest(t) ==
    /\ thr[t].pc = "slice"
    /\ With(t, [thr[t] EXCEPT !.pc = "assign",
                              !.slice = FirstN(History(thr[t].pipeline), HistoryWindow)])
    /\ UNCHANGED <<call, session_pipelines, pipelines, nreq, log>>

\* the right-hand side:  self.conversation_history[-5:]
take_slice(t) ==
    /\ thr[t].pc = "slice"
    /\ With(t, [thr[t] EXCEPT !.pc = "assign",
                              !.slice = LastN(History(thr[t].pipeline), HistoryWindow)])
    /\ UNCHANGED <<call, session_pipelines, pipelines, nreq, log>>

\* the assignment:  self.conversation_history = <that slice>
assign_slice(t) ==
    /\ thr[t].pc = "assign"
    /\ pipelines' = [pipelines EXCEPT ![thr[t].pipeline].conversation_history = thr[t].slice]
    /\ With(t, [thr[t] EXCEPT !.pc = "respond", !.slice = <<>>])
    /\ UNCHANGED <<call, session_pipelines, nreq, log>>

-----------------------------------------------------------------------------
(* app.py: the rest of chat, and reset_conversation *)

\* chat after process_message returned: the JSON answer
respond(t) ==
    /\ thr[t].pc = "respond"
    /\ With(t, [thr[t] EXCEPT
                  !.pc = "returned",
                  !.http = IF thr[t].result.status = "rejected"
                           THEN [code |-> 200, status |-> "rejected",
                                 conversation_turns |-> NoPrice]
                           ELSE [code |-> 200, status |-> "success",
                                 conversation_turns |-> Len(History(thr[t].pipeline))]])
    /\ UNCHANGED <<call, session_pipelines, pipelines, nreq, log>>

\* the answer is on the wire; the worker thread is free again
finish(t) ==
    /\ thr[t].pc = "returned"
    /\ With(t, IdleThread)
    /\ UNCHANGED <<call, session_pipelines, pipelines, nreq, log>>

\* reset_conversation: session_pipelines[session_id].conversation_history = []
\* (a client that sends one request at a time resets between two messages)
reset_conversation(s, P) ==
    /\ P.serial => \A u \in Threads : thr[u].pc = "idle"
    /\ session_pipelines[s] # 0
    /\ pipelines' = [pipelines EXCEPT ![session_pipelines[s]].conversation_history = <<>>]
    /\ log' = [log EXCEPT ![session_pipelines[s]] = <<>>]
    /\ UNCHANGED <<call, session_pipelines, thr, nreq>>

-----------------------------------------------------------------------------
(* Specifications *)

Next(P) ==
    \/ \E t \in P.threads, s \in P.sessions \cup PlainLoad.sessions,
          m \in P.messages \cup PlainLoad.messages : chat(t, s, m, P)
    \/ \E t \in P.threads : get_or_create_pipeline(t)
    \/ \E t \in P.threads : load_models(t, P)
    \/ \E t \in P.threads : lookup_pipeline(t)
    \/ \E t \in P.threads : _detect_language(t, P)
    \/ \E t \in P.threads : translate_step(t, P)
    \/ \E t \in P.threads : _classify_intent(t, P)
    \/ \E t \in P.threads : _extract_entities(t, P)
    \/ \E t \in P.threads : resolve_query(t)
    \/ \E t \in P.threads : _search_products(t, P)
    \/ \E t \in P.threads : _generate_response(t, P)
    \/ \E t \in P.threads : append_exchange(t)
    \/ \E t \in P.threads : check_len(t)
    \/ \E t \in P.threads : take_slice(t)
    \/ \E t \in P.threads : assign_slice(t)
    \/ \E t \in P.threads : respond(t)
    \/ \E t \in P.threads : finish(t)
    \/ \E s \in P.sessions : reset_conversation(s, P)

\* the server receives nothing while a component is called on its own
ServerIdle ==
    /\ session_pipelines = [s \in Sessions |-> 0]
    /\ pipelines = <<>>
    /\ thr = [t \in Threads |-> IdleThread]
    /\ nreq = 0
    /\ log = <<>>

\* every list of at most n elements of S
ListsUpTo(S, n) == UNION {[1..k -> S] : k \in 0..n}

\* catalog rows: listings of one jacket (one sku) with and without a price, and
\* coats of one price with no sku, the jacket's sku or a sku of their own
CatalogRows ==
    {Row("Black Jacket", "jacket", "black", p, "a") : p \in {NaNPrice, 1, 2}}
    \cup {Row("Denim Coat", "jackets and coats", "blue", 2, k) : k \in {NaN, "a", "b"}}

SearchQueries == {"", "Jacket"}
SearchFilters == {NoFilters, [NoFilters EXCEPT !.price_min = 2]}
SortModes == {"relevance", "price_asc", "price_desc"}
ResultCaps == {0, 2, 5}

\* a search is about to be called on some catalog with some arguments
SearchInit ==
    /\ ServerIdle
    /\ call \in [fn : {"search"}, df : ListsUpTo(CatalogRows, MaxCatalog),
                 query : SearchQueries, max_results : ResultCaps,
                 filters : SearchFilters, sort_by : SortModes,
                 returned : {FALSE}, results : {<<>>}]

\* product_search.search(query, max_results, filters, sort_by) runs and returns
search_call ==
    /\ call.fn = "search"
    /\ ~call.returned
    /\ call' = [call EXCEPT
                  !.returned = TRUE,
                  !.results = ProductSearch_search(call.df, call.query, call.max_results,
                                                   call.filters, call.sort_by)]
    /\ UNCHANGED <<session_pipelines, pipelines, thr, nreq, log>>

SearchNext == search_call

\* the search engine called on its own
SearchSpec == SearchInit /\ [][SearchNext]_vars

\* two listings of one product that differ in their colour only; the colour is
\* in color_clean, or in color when color_clean is a missing cell
ColorPairs ==
    LET listing(name, price, clean, colour, sku) ==
            IF clean THEN Row(name, "jacket", colour, price, sku)
            ELSE [Row(name, "jacket", NaN, price, sku) EXCEPT !.color = colour]
    IN  UNION {{<<listing(name, price, clean, "black", "a"),
                  listing(name, price, clean, "black/white multicolor print", "b")>>,
                <<listing(name, price, clean, "black/white multicolor print", "b"),
                  listing(name, price, clean, "black", "a")>>} :
               name \in {"Black Jacket", "Print Jacket"},
               price \in {NaNPrice, 2},
               clean \in BOOLEAN}

ColorQueries == {"", "black jacket", "white print", "multicolor"}
ColorFilters ==
    {[NoFilters EXCEPT !.colors = <<"black">>],
     [NoFilters EXCEPT !.colors = <<"Black">>, !.price_min = 1],
     [NoFilters EXCEPT !.colors = <<"black">>, !.price_min = 1, !.price_max = 3]}

\* a search with a colors filter is about to be called on two such listings
ColorInit ==
    /\ ServerIdle
    /\ call \in [fn : {"search"}, df : ColorPairs,
                 query : ColorQueries, max_results : {2, 5},
                 filters : ColorFilters, sort_by : SortModes,
                 returned : {FALSE}, results : {<<>>}]

\* the search engine called with a colors filter
ColorSpec == ColorInit /\ [][SearchNext]_vars

\* a stored exchange whose resolved query is query_english
Turn(query_english) ==
    [user |-> query_english, query_english |-> query_english, entities |-> EmptyEntities,
     response |-> [template |-> "one_first", total |-> 1, language |-> "en"],
     products |-> <<"p1">>, language |-> "en"]

\* resolved queries of earlier turns, and follow-up texts of every kind
ResolvedQueries ==
    {"black jacket", "red dress", "leather jacket", "Navy Blazer", "hello", "",
     "show me more"}
FollowUps ==
    {"show me blue", "Blue", "something cheaper", "show me more", "long sleeve",
     "cheaper in red", "more in blue", "other long ones", "Red Dress",
     "anything else cheap", "more like the jacket", "hello", "for summer",
     "my preferred one", "stop", "other long ones in blue"}

\* the enrichment is about to be called with some query and some history
EnrichInit ==
    /\ ServerIdle
    /\ \E h \in ListsUpTo(ResolvedQueries, MaxHistory), q \in FollowUps :
          call = [fn |-> "enrich", query |-> q,
                  conversation_history |-> [i \in 1..Len(h) |-> Turn(h[i])],
                  returned |-> FALSE, result |-> None]

\* self._enrich_query_with_context(query_english, self.conversation_history) runs
enrich_call ==
    /\ call.fn = "enrich"
    /\ ~call.returned
    /\ call' = [call EXCEPT
                  !.returned = TRUE,
                  !.result = _enrich_query_with_context(call.query,
                                                        call.conversation_history)]
    /\ UNCHANGED <<session_pipelines, pipelines, thr, nreq, log>>

EnrichNext == enrich_call

\* the query enrichment called on its own
EnrichSpec == EnrichInit /\ [][EnrichNext]_vars

\* structured answers of the model: any product type, colors and materials
FreshEntities ==
    {[ProductEntities(pt, c, None, "True") EXCEPT !.materials = m] :
        pt \in {None, "jacket", "dress"},
        c \in {<<>>, <<"black">>, <<"blue">>, <<"blue", "black">>},
        m \in {<<>>, <<"denim">>, <<"leather">>}}

\* entities stored with earlier turns ({} when extraction failed on that turn)
StoredEntities ==
    {EmptyEntities,
     [ProductEntities("jacket", <<"black">>, None, "True") EXCEPT !.materials = <<"denim">>],
     ProductEntities("dress", <<"blue", "red">>, None, "True"),
     ProductEntities(None, <<>>, None, "True"),
     [ProductEntities(None, <<"blue">>, "price_asc", "True") EXCEPT !.brand = "Nike"]}

\* the extractor is about to be called; raw is what the model will answer
\* (EmptyEntities: the call of the model fails)
ExtractInit ==
    /\ ServerIdle
    /\ \E h \in ListsUpTo(StoredEntities, MaxStored),
          raw \in FreshEntities \cup {EmptyEntities} :
          call = [fn |-> "extract", raw |-> raw,
                  conversation_history |->
                      [i \in 1..Len(h) |-> [Turn("black jacket") EXCEPT !.entities = h[i]]],
                  returned |-> FALSE, result |-> EmptyEntities]

\* self.entity_extractor.extract(query, self.conversation_history) runs
extract_call ==
    /\ call.fn = "extract"
    /\ ~call.returned
    /\ \E extracted \in extract(call.raw, call.conversation_history) :
          call' = [call EXCEPT !.returned = TRUE, !.result = extracted]
    /\ UNCHANGED <<session_pipelines, pipelines, thr, nreq, log>>

ExtractNext == extract_call

\* the entity extractor called on its own
ExtractSpec == ExtractInit /\ [][ExtractNext]_vars

\* the server under mixed traffic, one request at a time
Spec == Init /\ [][Next(WideLoad)]_vars

\* one long conversation
SeqSpec == Init /\ [][Next(SeqLoad)]_vars

\* foreign-language requests, one at a time
LangSpec == Init /\ [][Next(LangLoad)]_vars

\* one session with requests in flight together
ConcSpec == Init /\ [][Next(ConcLoad)]_vars

\* two sessions with requests in flight together
CrossSpec == Init /\ [][Next(CrossLoad)]_vars

-----------------------------------------------------------------------------
(* Properties *)

Pids == 1..Len(pipelines)

\* some thread is between its append and the end of its trim on pipeline pid
Trimming(pid) ==
    \E t \in Threads : thr[t].pipeline = pid /\ thr[t].pc \in {"check_len", "slice", "assign"}

\* C1: whenever the intent classifier answered out_of_context, process_message
\* has returned status 'rejected' with reason 'out_of_context', and the request
\* has called neither the entity extractor, nor the search engine, nor the
\* response generator, and stored nothing, whatever the history's length.
C1_IntentGateRejects ==
    \A t \in Threads :
        thr[t].intent = "out_of_context" =>
            /\ thr[t].pc \in {"respond", "returned"}
            /\ thr[t].result.status = "rejected"
            /\ thr[t].result.reason = "out_of_context"
            /\ thr[t].calls \cap {"extract", "search", "generate"} = {}
            /\ ~thr[t].appended

\* a message rejected by the intent gate against a full window of 5 exchanges
C1_Witness ==
    \E t \in Threads :
        /\ thr[t].pc = "returned"
        /\ thr[t].intent = "out_of_context"
        /\ thr[t].http.status = "rejected"
        /\ Len(History(thr[t].pipeline)) = HistoryWindow

\* C2: on return from every call (no request is between its append and the end
\* of its trim), a pipeline's conversation history holds at most 5 exchanges.
C2_HistoryAtMostFive ==
    \A pid \in Pids : ~Trimming(pid) => Len(History(pid)) <= HistoryWindow

\* a call has returned after its exchange, the 6th or later, evicted an older one
C2_Witness ==
    \E t \in Threads :
        /\ thr[t].pc = "returned"
        /\ thr[t].appended
        /\ Len(log[thr[t].pipeline]) > HistoryWindow
        /\ Len(History(thr[t].pipeline)) = HistoryWindow

\* C3: with the messages of a session processed one after the other, on return
\* from every call the history is the exchanges of the last min(n, 5) accepted
\* messages (n counted since the last reset), oldest first.
C3_SlidingWindow ==
    \A pid \in Pids : ~Trimming(pid) => History(pid) = LastN(log[pid], HistoryWindow)

\* 7 accepted messages of two kinds: exactly the last 5 remain, in arrival order
C3_Witness ==
    \E pid \in Pids :
        /\ ~Trimming(pid)
        /\ Len(log[pid]) = 7
        /\ History(pid) = SubSeq(log[pid], 3, 7)
        /\ History(pid)[1].user # History(pid)[5].user
        /\ log[pid][1] # History(pid)[1]

\* C4: when the requests of a session have all completed, every exchange that a
\* completed request appended, and that the 5-entry window has not yet pushed
\* out, is present in the history.
C4_NoAppendedExchangeLost ==
    (\A u \in Threads : thr[u].pc \in {"idle", "returned"}) =>
        \A t \in Threads :
            (/\ thr[t].pc = "returned"
             /\ thr[t].appended
             /\ Exchange(t) \in Range(LastN(log[thr[t].pipeline], HistoryWindow)))
            => Exchange(t) \in Range(History(thr[t].pipeline))

\* C5: once the intent classifier accepted a query and the extractor answered
\* is_fashion_query == false, process_message has returned status 'rejected'
\* with reason 'not_fashion' and the search engine was not called.
C5_SecondVeto ==
    \A t \in Threads :
        (/\ thr[t].intent = "in_context"
         /\ thr[t].entities.is_fashion_query = "False"
         /\ thr[t].pc # "resolve")
        => /\ thr[t].pc \in {"respond", "returned"}
           /\ thr[t].result.status = "rejected"
           /\ thr[t].result.reason = "not_fashion"
           /\ "search" \notin thr[t].calls
           /\ ~thr[t].appended

\* a message the intent classifier accepted and the extractor vetoed
C5_Witness ==
    \E t \in Threads :
        /\ thr[t].pc = "returned"
        /\ thr[t].intent = "in_context"
        /\ thr[t].result.reason = "not_fashion"
        /\ thr[t].http.status = "rejected"
        /\ Len(History(thr[t].pipeline)) > 0

\* translation was needed and did not succeed in thread t
TranslationFailed(t) ==
    /\ thr[t].translation # NoTranslation
    /\ thr[t].detected_lang # "en"
    /\ \/ ~pipelines[thr[t].pipeline].translator
       \/ thr[t].chain = "failed"

\* C6: whenever the detected language is not English and translation did not
\* succeed (no translator, or the translation call failed), the canonical query
\* is the original text and the translation result is marked not translated,
\* with reason 'translator_disabled' or 'error'.
C6_FailedTranslationRecorded ==
    \A t \in Threads :
        TranslationFailed(t) =>
            /\ thr[t].translation.text = thr[t].user_message
            /\ ~thr[t].translation.translated
            /\ thr[t].translation.reason \in {"translator_disabled", "error"}

\* C7: a request has stored its exchange only after its response was generated
\* and its result is 'success'; and no step of a request that has not stored its
\* exchange (so every step of a request that ends in an error or a rejection)
\* changes any conversation history.
C7_NoPartialExchange ==
    /\ [](\A t \in Threads :
            thr[t].appended =>
                /\ "generate" \in thr[t].calls
                /\ thr[t].response # NoResponse
                /\ thr[t].result.status = "success"
                /\ thr[t].http.code # 500)
    /\ [][\A t \in Threads :
            (thr'[t] # thr[t] /\ ~thr'[t].appended) =>
                \A pid \in Pids :
                    pipelines'[pid].conversation_history = pipelines[pid].conversation_history]_vars

\* the response generator raised for a message of a session that has a history
C7_Witness ==
    \E t \in Threads :
        /\ thr[t].pc = "returned"
        /\ thr[t].http.code = 500
        /\ "generate" \in thr[t].calls
        /\ Len(History(thr[t].pipeline)) > 0

\* C8: the extract step never ends in an error; with empty entities the resolve
\* step does not reject, takes the search query from rule-based enrichment over
\* the session history, passes every filter absent and sort mode 'relevance';
\* and the message, once answered without another collaborator raising, has
\* status 'success' and its exchange stored.
C8_ExtractionFailureDegrades ==
    /\ [][\A t \in Threads :
            thr[t].pc = "extract" => thr'[t].pc \in {"extract", "resolve"}]_vars
    /\ [][\A t \in Threads :
            (thr[t].pc = "resolve" /\ thr'[t].pc # "resolve" /\ ~thr[t].entities.nonempty)
            => /\ thr'[t].pc = "search"
               /\ thr'[t].search_query =
                      _enrich_query_with_context(thr[t].translation.text,
                                                 History(thr[t].pipeline))
               /\ thr'[t].filters = NoFilters
               /\ thr'[t].sort_by = "relevance"]_vars
    /\ [](\A t \in Threads :
            (/\ thr[t].pc = "returned"
             /\ "extract" \in thr[t].calls
             /\ ~thr[t].entities.nonempty
             /\ thr[t].http.code # 500)
            => /\ thr[t].http.status = "success"
               /\ thr[t].result.status = "success"
               /\ thr[t].appended)

\* extraction failed for a follow-up; enrichment rewrote the query from the history
C8_Witness ==
    \E t \in Threads :
        /\ thr[t].pc = "returned"
        /\ "extract" \in thr[t].calls
        /\ ~thr[t].entities.nonempty
        /\ thr[t].http.status = "success"
        /\ thr[t].search_query = "show me blue jacket"
        /\ thr[t].filters = NoFilters

\* thread t has called search on a pipeline whose catalog could not be loaded
SearchedWithoutCatalog(t) ==
    /\ thr[t].pipeline # 0
    /\ ~pipelines[thr[t].pipeline].df
    /\ "search" \in thr[t].calls

C10_SessionsIndependent ==
    /\ [](/\ \A t \in Threads :
               thr[t].pipeline # 0 => pipelines[thr[t].pipeline].owner = thr[t].session_id
          /\ \A s \in Sessions :
               session_pipelines[s] # 0 => pipelines[session_pipelines[s]].owner = s)
    /\ [][\A b \in Sessions :
            SessionHistory(b)' # SessionHistory(b) =>
                \/ \E t \in Threads : thr'[t] # thr[t] /\ thr[t].session_id = b
                \/ /\ thr' = thr
                   /\ \A a \in Sessions \ {b} : SessionHistory(a)' = SessionHistory(a)]_vars

\* a request of session s2 has stored its exchange while a request of session s1,
\* whose window is full, is about to store its own
C10_Witness ==
    \E t, u \in Threads :
        /\ thr[t].session_id = "s1" /\ thr[t].pc = "append"
        /\ thr[u].session_id = "s2" /\ thr[u].appended
        /\ Len(SessionHistory("s1")) = HistoryWindow
        /\ Len(SessionHistory("s2")) = 1

\* a search called on its own has returned
SearchReturned == call.fn = "search" /\ call.returned

\* the sorted candidates of the search that was called
CallRanked == Ranked(call.df, call.query, call.filters, call.sort_by)

\* C11: the list a search returns never holds two products with the same
\* non-missing sku, and the product it holds for a sku is the first one with that
\* sku in the sorted candidate order.
C11_SkuDeduplicated ==
    SearchReturned =>
        LET ranked == CallRanked
            skus == [k \in 1..Len(ranked) |-> ranked[k].product.sku]
        IN  /\ \A i, j \in 1..Len(call.results) :
                  (i < j /\ call.results[i].sku # NaN)
                      => call.results[i].sku # call.results[j].sku
            /\ \A i \in 1..Len(call.results) :
                  call.results[i].sku # NaN =>
                      LET first == CHOOSE k \in 1..Len(skus) :
                                       /\ skus[k] = call.results[i].sku
                                       /\ \A m \in 1..(k - 1) : skus[m] # call.results[i].sku
                      IN  call.results[i] = Result(ranked[first].product)

\* three candidates sorted by price, two of one sku with different prices: the
\* cheaper one is returned, the other is dropped, the product with no sku stays
C11_Witness ==
    /\ SearchReturned
    /\ call.sort_by = "price_asc"
    /\ call.max_results = 5
    /\ Len(call.df) = 3
    /\ Len(call.results) = 2
    /\ LET ranked == CallRanked
       IN  /\ Len(ranked) = 3
           /\ \E i, j \in 1..3 :
                 /\ i < j
                 /\ ranked[i].product.sku = "a"
                 /\ ranked[j].product.sku = "a"
                 /\ ranked[i].product.price_clean # ranked[j].product.price_clean
                 /\ Result(ranked[i].product) \in Range(call.results)
                 /\ Result(ranked[j].product) \notin Range(call.results)
    /\ \E i \in 1..2 : call.results[i].sku = NaN

\* C12: a search with an empty query and no filters returns a list no longer
\* than max_results, for every catalog and every max_results >= 0.
C12_ResultCap ==
    (SearchReturned /\ call.query = "" /\ call.filters = NoFilters)
        => Len(call.results) <= call.max_results

\* C13: when a price_min filter is given, no product whose price is missing is
\* in the list a search returns.
C13_PriceMinDropsUnknown ==
    (SearchReturned /\ call.filters.price_min # NoPrice)
        => \A i \in 1..Len(call.results) : call.results[i].price # NaNPrice

\* C14: with sort_by = 'price_asc' the returned products with a known price are
\* in non-decreasing price order and every product with an unknown price comes
\* after all of them.
C14_PriceAscending ==
    (SearchReturned /\ call.sort_by = "price_asc")
        => \A i, j \in 1..Len(call.results) :
              i < j =>
                  /\ (call.results[i].price # NaNPrice /\ call.results[j].price # NaNPrice)
                        => call.results[i].price <= call.results[j].price
                  /\ call.results[i].price = NaNPrice => call.results[j].price = NaNPrice

\* C15: with sort_by = 'price_desc' the returned products with a known price are
\* in non-increasing price order and every product with a missing price comes
\* before all of them.
C15_PriceDescending ==
    (SearchReturned /\ call.sort_by = "price_desc")
        => \A i, j \in 1..Len(call.results) :
              i < j =>
                  /\ (call.results[i].price # NaNPrice /\ call.results[j].price # NaNPrice)
                        => call.results[i].price >= call.results[j].price
                  /\ call.results[j].price = NaNPrice => call.results[i].price = NaNPrice

\* the enrichment called on its own has returned
EnrichReturned == call.fn = "enrich" /\ call.returned

\* the call's history is one exchange with this resolved query
OnlyTurn(query_english) == call.conversation_history = <<Turn(query_english)>>

\* the resolved query of the last exchange ("" when there is no history)
LastQuery ==
    IF Len(call.conversation_history) = 0 THEN ""
    ELSE call.conversation_history[Len(call.conversation_history)].query_english

\* what the current query and the last resolved query contain
HasProduct == AnyIn(product_keywords, Lower(call.query))
HasColor == AnyIn(color_keywords, Lower(call.query))
HasAttribute ==
    \E w \in {"long sleeve", "short sleeve", "sleeve", "maxi", "midi", "mini", "long",
               "short", "casual", "formal", "vintage", "oversized"} :
        Contains(Lower(call.query), w)
HasPrice == AnyIn(price_modifiers, Lower(call.query))
HasVague == \E w \in {"more", "other", "another", "different", "else", "similar", "like"} :
                Contains(Lower(call.query), w)
LastType == FirstIn(product_keywords, Lower(LastQuery))
LastColor == FirstIn(color_keywords, Lower(LastQuery))

\* C16: when the last resolved query contains a product type and the current
\* query contains a color term but no product-type keyword, the enriched query
\* is the new color followed by the product type from the history; "show me
\* blue" after "black jacket" gives exactly "blue jacket".
C16_ColorChange ==
    EnrichReturned =>
        /\ (Len(call.conversation_history) > 0 /\ LastType # None /\ HasColor /\ ~HasProduct)
              => call.result = FirstIn(color_keywords, Lower(call.query)) \o " " \o LastType
        /\ (OnlyTurn("black jacket") /\ call.query = "show me blue")
              => call.result = "blue jacket"

\* C17: when the current query contains a relative-price term and no
\* product-type, color or attribute term, and the last resolved query contains
\* a product type, the output is the last query's color (if it has one), its
\* product type and the lowercased current text; "something cheaper" after
\* "red dress" gives "red dress something cheaper".
C17_PriceModifier ==
    EnrichReturned =>
        /\ (/\ Len(call.conversation_history) > 0
            /\ LastType # None
            /\ HasPrice /\ ~HasProduct /\ ~HasColor /\ ~HasAttribute)
              => call.result = (IF LastColor # None THEN LastColor \o " " ELSE "")
                                   \o LastType \o " " \o Lower(call.query)
        /\ (OnlyTurn("red dress") /\ call.query = "something cheaper")
              => call.result = "red dress something cheaper"

\* the price rule applied with a color to carry, and with none
C17_Witness ==
    /\ EnrichReturned
    /\ OnlyTurn("red dress")
    /\ call.query = "something cheaper"
    /\ call.result = "red dress something cheaper"

\* C18: when the current query contains a generic continuation word and no
\* product-type, color, attribute or price term, and the last resolved query is
\* not empty, the output is that last resolved query verbatim; "show me more"
\* after "leather jacket" gives "leather jacket".
C18_VagueFollowUp ==
    EnrichReturned =>
        /\ (/\ Len(call.conversation_history) > 0
            /\ LastQuery # ""
            /\ HasVague /\ ~HasProduct /\ ~HasColor /\ ~HasAttribute /\ ~HasPrice)
              => call.result = LastQuery
        /\ (OnlyTurn("leather jacket") /\ call.query = "show me more")
              => call.result = "leather jacket"

\* the vague rule applied: the current text is gone from the output
C18_Witness ==
    /\ EnrichReturned
    /\ Len(call.conversation_history) = 2
    /\ LastQuery = "Navy Blazer"
    /\ call.query = "show me more"
    /\ call.result = "Navy Blazer"

\* C19: with an empty history, or with a product-type keyword in the query, the
\* enrichment returns the query unchanged, whatever color, attribute, price or
\* vague terms it contains.
C19_PassThrough ==
    (EnrichReturned /\ (Len(call.conversation_history) = 0 \/ HasProduct))
        => call.result = call.query

\* a query with a product type, a vague word and capitals, after a turn about
\* another product, comes back as it was
C19_Witness ==
    /\ EnrichReturned
    /\ OnlyTurn("red dress")
    /\ call.query = "more like the jacket"
    /\ call.result = "more like the jacket"
    /\ HasVague /\ HasProduct

\* the extractor called on its own has returned what it merged from a fresh answer
ExtractReturned == call.fn = "extract" /\ call.returned /\ call.raw.nonempty

\* C20: in the entities the extractor returns after merging with a prior turn,
\* every field the fresh extraction populated keeps its fresh value: a fresh
\* product_type is not replaced, every fresh color and material is in the merged
\* lists, and the other fields are the fresh ones.
C20_MergeKeepsFresh ==
    ExtractReturned =>
        /\ StrTruthy(call.raw.product_type) => call.result.product_type = call.raw.product_type
        /\ Range(call.raw.colors) \subseteq Range(call.result.colors)
        /\ Range(call.raw.materials) \subseteq Range(call.result.materials)
        /\ \A f \in {"price_min", "price_max", "sizes", "gender", "brand", "features",
                     "sort_by", "is_fashion_query"} : call.result[f] = call.raw[f]

\* a fresh dress in blue and leather merged with a stored black denim jacket
C20_Witness ==
    /\ ExtractReturned
    /\ PreviousEntities(call.conversation_history).product_type = "jacket"
    /\ call.raw.product_type = "dress"
    /\ call.raw.colors = <<"blue">>
    /\ call.raw.materials = <<"leather">>
    /\ call.result.product_type = "dress"
    /\ Range(call.result.colors) = {"blue", "black"}
    /\ Range(call.result.materials) = {"leather", "denim"}

\* the colour the scoring loop reads from a row
ColorOf(row) == IF row.color_clean # NaN THEN row.color_clean ELSE row.color

SameButColor(r1, r2) ==
    [r1 EXCEPT !.color_clean = NaN, !.color = NaN, !.sku = NaN]
        = [r2 EXCEPT !.color_clean = NaN, !.color = NaN, !.sku = NaN]

CallTerms == SearchTerms(call.query, call.filters)

\* C21: with a colors filter of black alone, a listing whose colour is
\* "black/white multicolor print" scores strictly lower than the listing that
\* differs from it only by the colour "black"; ranked by relevance the solid
\* listing therefore comes first, whatever their order in the catalog.
C21_SolidBeatsMulticolor ==
    (SearchReturned /\ CallTerms.filter_colors = <<"black">>) =>
        \A i, j \in 1..Len(call.df) :
            (/\ SameButColor(call.df[i], call.df[j])
             /\ ColorOf(call.df[i]) = "black"
             /\ ColorOf(call.df[j]) = "black/white multicolor print")
            => /\ Score(call.df[j], CallTerms) < Score(call.df[i], CallTerms)
               /\ (call.sort_by = "relevance" /\ call.df[i].color_clean # NaN)
                      => /\ Len(call.results) = 2
                         /\ call.results[1].color = "black"

\* the multicolor listing is first in the catalog and alone matches the words of
\* the query, and the solid one is still returned first
C21_Witness ==
    /\ SearchReturned
    /\ call.query = "white print"
    /\ call.sort_by = "relevance"
    /\ call.filters.colors = <<"black">>
    /\ Len(call.df) = 2
    /\ call.df[1].color_clean = "black/white multicolor print"
    /\ call.df[2].color_clean = "black"
    /\ SameButColor(call.df[1], call.df[2])
    /\ Len(call.results) = 2
    /\ call.results[1].color = "black"
    /\ call.results[2].color = "black/white multicolor print"

\* the entities the extractor merges the fresh extraction with
CallPrevious == PreviousEntities(call.conversation_history)

\* C22: after a successful extraction in a session with prior entities, every
\* field the fresh extraction left absent is filled from the prior entities:
\* product_type, brand, price_min and price_max are taken over when absent, and
\* colors, materials, sizes and features are the union of the prior and the
\* fresh lists.
C22_MergeFillsEveryAbsentField ==
    (ExtractReturned /\ CallPrevious.nonempty) =>
        /\ \A f \in {"product_type", "brand"} :
              ~StrTruthy(call.raw[f]) => call.result[f] = CallPrevious[f]
        /\ \A f \in {"price_min", "price_max"} :
              call.raw[f] = NoPrice => call.result[f] = CallPrevious[f]
        /\ \A f \in {"colors", "materials", "sizes", "features"} :
              ListTruthy(CallPrevious[f]) =>
                  Range(call.result[f]) = Range(CallPrevious[f]) \cup Range(call.raw[f])

\* C23: the prior entities merged into a fresh extraction are those stored in
\* the most recent exchange of the history, never those of an older exchange:
\* the extractor returns what it returns on a history of that exchange alone.
C23_MergeSourceIsLastExchange ==
    (ExtractReturned /\ Len(call.conversation_history) > 0) =>
        call.result \in extract(call.raw, LastN(call.conversation_history, 1))

\* one of the terms occurs in the lowercased query at the start of a word (as a
\* token, or as the stem of one: "cheap" in "cheaper")
StartsToken(terms) ==
    LET text == Lower(call.query)
    IN  \E k \in 1..Len(terms) :
            \E i \in 1..(Len(text) - Len(terms[k]) + 1) :
                /\ SubSeq(text, i, i + Len(terms[k]) - 1) = terms[k]
                /\ i = 1 \/ ~IsWordChar(SubSeq(text, i - 1, i - 1))

\* C24: the enrichment classifies by tokens: a query in which a color,
\* attribute, price, vague or product-type term occurs only inside a longer
\* word ("red" in "preferred", "top" in "stop") triggers none of those rules and
\* is not treated as naming a product; after a turn about a product it gets the
\* generic fallback, the product type of the history before the current text.
C24_ClassifiesByTokens ==
    (/\ EnrichReturned
     /\ Len(call.conversation_history) > 0
     /\ LastType # None
     /\ ~StartsToken(product_keywords)
     /\ ~StartsToken(color_keywords)
     /\ ~StartsToken(attribute_keywords)
     /\ ~StartsToken(price_modifiers)
     /\ ~StartsToken(vague_followups))
        => call.result = LastType \o " " \o call.query

\* the query has no product-type keyword, an attribute term and a vague term
AttributeAndVague ==
    /\ EnrichReturned
    /\ Len(call.conversation_history) > 0
    /\ ~HasProduct /\ HasAttribute /\ HasVague

\* the output still holds the current text
KeepsCurrentText == Contains(Lower(call.result), Lower(call.query))

\* C25 as stated: every query without a product-type keyword that contains an
\* attribute term and a vague term is never resolved as a vague follow-up, and
\* when the last resolved query contains a product type the result is the
\* attribute composition "[last color] [last product type] [current text]".
C25_AttributeOutranksVague ==
    AttributeAndVague =>
        /\ KeepsCurrentText
        /\ LastType # None =>
              call.result = (IF LastColor # None THEN LastColor \o " " ELSE "")
                                \o LastType \o " " \o Lower(call.query)

\* C25 amended: such a query is never resolved as a vague follow-up; when the
\* last resolved query contains a product type, the result is the attribute
\* composition if the query has no color term, and the color-change
\* composition (current text, then the product type) if it has one.
C25_AttributeOutranksVagueUnlessColor ==
    AttributeAndVague =>
        /\ KeepsCurrentText
        /\ (LastType # None /\ ~HasColor) =>
              call.result = (IF LastColor # None THEN LastColor \o " " ELSE "")
                                \o LastType \o " " \o Lower(call.query)
        /\ (LastType # None /\ HasColor) =>
              call.result = Lower(call.query) \o " " \o LastType

\* "other long ones" after "black jacket": attribute and vague terms together
C25_Witness ==
    /\ AttributeAndVague
    /\ OnlyTurn("black jacket")
    /\ call.query = "other long ones"
    /\ call.result = "black jacket other long ones"

\* how many of the first k ranked candidates have no sku, and how many a loop
\* keeps of them when a missing sku never makes a duplicate
MissingAmong(ranked, k) == Cardinality({i \in 1..k : ranked[i].product.sku = NaN})
KeptAmong(ranked, k) ==
    MissingAmong(ranked, k)
        + Cardinality({ranked[i].product.sku : i \in 1..k} \ {NaN})

Rejecting(t) ==
    thr[t].result.status = "rejected" \/ thr'[t].result.status = "rejected"

\* C27: a message that ends rejected ('out_of_context' or 'not_fashion')
\* appends nothing to and removes nothing from any session history: no step of
\* its request, from its arrival to its answer, changes a history, so the next
\* message finds the history the rejected one found.
C27_RejectedLeavesContext ==
    /\ [](\A t \in Threads :
            thr[t].result.status = "rejected" =>
                /\ thr[t].result.reason \in {"out_of_context", "not_fashion"}
                /\ ~thr[t].appended
                /\ thr[t].calls \cap {"search", "generate"} = {})
    /\ [][\A t \in Threads :
            (/\ thr'[t] # thr[t]
             /\ \/ Rejecting(t)
                \/ thr'[t].pc \in {"get_pipeline", "load_models", "lookup", "detect",
                                   "translate", "classify", "extract", "resolve"})
            => /\ \A pid \in Pids :
                     /\ pipelines'[pid].conversation_history
                           = pipelines[pid].conversation_history
                     /\ log'[pid] = log[pid]
               /\ \A pid \in (1..Len(pipelines')) \ Pids :
                     pipelines'[pid].conversation_history = <<>>]_vars

\* the extractor vetoed a message of a session whose window is full
C27_Witness ==
    \E t \in Threads :
        /\ thr[t].pc = "returned"
        /\ thr[t].result.status = "rejected"
        /\ thr[t].result.reason = "not_fashion"
        /\ thr[t].http.status = "rejected"
        /\ Len(History(thr[t].pipeline)) = HistoryWindow

\* the pipelines created for session s
PipelinesOf(s) == {pid \in Pids : pipelines[pid].owner = s}

\* C28: for each session identifier at most one ChatbotPipeline is ever created
\* and used, even when the first requests of the session arrive together:
\* every request of the session works on the pipeline the session map holds.
C28_OnePipelinePerSession ==
    /\ \A s \in Sessions : Cardinality(PipelinesOf(s)) <= 1
    /\ \A t \in Threads :
          thr[t].pipeline # 0 => thr[t].pipeline = session_pipelines[thr[t].session_id]

\* the exchanges of the context window that stored entities
StoredInWindow ==
    LET window == LastN(call.conversation_history, 3)
    IN  {i \in 1..Len(window) : window[i].entities.nonempty}

\* the entities of the most recent of them
MostRecentStored ==
    LET window == LastN(call.conversation_history, 3)
    IN  window[CHOOSE i \in StoredInWindow : \A j \in StoredInWindow : j <= i].entities

\* C29: when extraction succeeds and some exchange among the last 3 stored
\* entities, the colors and the materials returned for the current turn hold
\* every color and material stored in the most recent such exchange, and so do
\* the colors and materials filters built from them.
C29_ColorsAndMaterialsAccumulate ==
    (ExtractReturned /\ StoredInWindow # {}) =>
        \A f \in {"colors", "materials"} :
            /\ Range(MostRecentStored[f]) \subseteq Range(call.result[f])
            /\ Range(MostRecentStored[f]) \subseteq Range(FiltersOf(call.result)[f])

\* a black denim jacket stored three exchanges ago, two failed extractions
\* since, and a fresh answer in blue leather
C29_Witness ==
    /\ ExtractReturned
    /\ Len(call.conversation_history) = 3
    /\ StoredInWindow = {1}
    /\ MostRecentStored.colors = <<"black">>
    /\ MostRecentStored.materials = <<"denim">>
    /\ call.raw.colors = <<"blue">>
    /\ call.raw.materials = <<"leather">>
    /\ Range(call.result.colors) = {"black", "blue"}
    /\ Range(call.result.materials) = {"denim", "leather"}

\* C30: the enrichment is idempotent: enriching the enriched query again with
\* the same history returns it unchanged.
C30_EnrichmentIdempotent ==
    EnrichReturned =>
        _enrich_query_with_context(call.result, call.conversation_history) = call.result

\* a query the enrichment rewrote, and that it leaves alone the second time
C30_Witness ==
    /\ EnrichReturned
    /\ Len(call.conversation_history) = 2
    /\ LastQuery = "black jacket"
    /\ call.query = "long sleeve"
    /\ call.result = "black jacket long sleeve"
    /\ call.result # call.query
    /\ _enrich_query_with_context(call.result, call.conversation_history) = call.result

====
